---- MODULE Spec2Model ----
(***************************************************************************)
(* Model of the verify-fix loop of ExamQuestionVerification                *)
(* (src/src/ExamQuestionVerification/exam_question_verification.py) and of *)
(* the data records it works on (schemas.py).                              *)
(*                                                                         *)
(* Every call of ExamQuestionVerification.main is a coroutine ("run").  A  *)
(* run is suspended only at its two awaits of a ReActAgent call: the one   *)
(* of verify_exam_question (line 142) and the one of fix_exam_question     *)
(* (line 232).  The code between two awaits is one atomic step of the      *)
(* event loop, so the model has one action for the call of main and one    *)
(* for each way an awaited agent call can end (a reply, a failure).        *)
(***************************************************************************)
EXTENDS Integers, Sequences, FiniteSets, TLC

\* ------------------------------------------------------------------ bounds
NumRuns == 2
MaxAttempts == 3

Runs == 1..NumRuns
\* The attempt counts main is called with: none, one, and the largest.
AttemptCounts == {0, 1, MaxAttempts}

\* ------------------------------------------------------------ data records
QuestionTexts == {"What is 2+2?", "Compute 2+2 and justify."}
Suggestions == {"", "too trivial"}
Errors == {"ModelInvocationError", "ValidationError"}

\* schemas.ExamQuestion: six text fields
ExamQuestion(metadata) ==
    [question |-> metadata.question,
     answer |-> metadata.answer,
     question_type |-> metadata.question_type,
     knowledge_point |-> metadata.knowledge_point,
     knowledge_point_description |-> metadata.knowledge_point_description,
     extra_requirement |-> metadata.extra_requirement]

\* schemas.VerificationResult: the fields are is_compliant and suggestion
VerificationResult(metadata) ==
    [is_compliant |-> metadata.is_compliant,
     suggestion |-> metadata.suggestion]

\* The structured outputs an agent call can produce for each structured_model.
ExamQuestionMetadata ==
    [question : QuestionTexts,
     answer : {"4"},
     question_type : {"calculation"},
     knowledge_point : {""},
     knowledge_point_description : {""},
     extra_requirement : {""}]

VerificationMetadata == [is_compliant : BOOLEAN, suggestion : Suggestions]

ExamQuestions == {ExamQuestion(m) : m \in ExamQuestionMetadata}

\* Python attribute lookup on a pydantic model: only declared fields exist.
HasAttr(obj, name) == name \in DOMAIN obj

Last(s) == s[Len(s)]
Front(s) == SubSeq(s, 1, Len(s) - 1)

NoResult == [kind |-> "none"]
Return(value) == [kind |-> "return", value |-> value]
Raise(error) == [kind |-> "raise", error |-> error]

\* ------------------------------------------------------ prompt templates
\* The Chinese question-type tags, written in pinyin: the enum aliases of
\* schemas.QuestionType and the second member of each tuple of lines 120-128.
single_choice_zh == "danxuanti"
multi_choice_zh == "duoxuanti"
fill_blank_zh == "tiankongti"
brief_answer_zh == "jiandati"
calculation_zh == "jisuanti"

\* x in front of the text r holds, when r is a text and not an exception.
Prepend(x, r) == IF r.kind = "raise" THEN r ELSE Return(x \o r.value)

\* The positions of the braces of s.
Braces(s) == {k \in 1..Len(s) : SubSeq(s, k, k) \in {"{", "}"}}

MinOf(S) == CHOOSE n \in S : \A k \in S : n <= k

\* str.format(**kwargs) from position k of s on, B being the positions of the
\* braces of s: "{{" and "}}" give one brace, "{name}" gives kwargs[name] and
\* raises KeyError when kwargs has no such name; a single brace with no
\* partner raises ValueError, "{}" raises IndexError.
RECURSIVE format_from(_, _, _, _)
format_from(s, k, B, kwargs) ==
    LET ahead == {j \in B : j >= k}
    IN  IF ahead = {} THEN Return(SubSeq(s, k, Len(s)))
        ELSE LET j == MinOf(ahead)
                 c == SubSeq(s, j, j)
                 literal == SubSeq(s, k, j - 1)
                 closing == {e \in ahead : e > j /\ SubSeq(s, e, e) = "}"}
             IN  IF j + 1 \in B /\ SubSeq(s, j + 1, j + 1) = c
                 THEN Prepend(literal \o c, format_from(s, j + 2, B, kwargs))
                 ELSE IF c = "}" \/ closing = {} THEN Raise("ValueError")
                 ELSE LET e == MinOf(closing)
                          name == SubSeq(s, j + 1, e - 1)
                      IN  IF name = "" THEN Raise("IndexError")
                          ELSE IF name \notin DOMAIN kwargs THEN Raise("KeyError")
                          ELSE Prepend(literal \o kwargs[name],
                                       format_from(s, e + 1, B, kwargs))

format(s, kwargs) == format_from(s, 1, Braces(s), kwargs)

\* The slots every verification template leaves to the second format call of
\* lines 134-140.
QuestionSlots ==
    "Q={question} A={answer} K={knowledge_point} "
        \o "D={knowledge_point_description} R={extra_requirement}"

\* prompts.PROMPTS: one fixed template per known question type, and the
\* generic one, whose question slots are written with doubled braces because
\* it is formatted twice (lines 131-133, then 134-140).
PROMPTS ==
    [single_choice_verification |-> "single choice: " \o QuestionSlots,
     multi_choice_verification |-> "multi choice: " \o QuestionSlots,
     fill_blank_verification |-> "fill blank: " \o QuestionSlots,
     brief_answer_verification |-> "brief answer: " \o QuestionSlots,
     calculation_verification |-> "calculation: " \o QuestionSlots,
     verification_prompt |->
         "type {question_type}: Q={{question}} A={{answer}} "
             \o "K={{knowledge_point}} D={{knowledge_point_description}} "
             \o "R={{extra_requirement}}"]

\* Lines 120-133 of verify_exam_question: the template of the question type.
select_verification_prompt(question_type) ==
    IF question_type \in {"single_choice", single_choice_zh}
    THEN Return(PROMPTS.single_choice_verification)
    ELSE IF question_type \in {"multi_choice", multi_choice_zh}
    THEN Return(PROMPTS.multi_choice_verification)
    ELSE IF question_type \in {"fill_blank", fill_blank_zh}
    THEN Return(PROMPTS.fill_blank_verification)
    ELSE IF question_type \in {"brief_answer", brief_answer_zh}
    THEN Return(PROMPTS.brief_answer_verification)
    ELSE IF question_type \in {"calculation", calculation_zh}
    THEN Return(PROMPTS.calculation_verification)
    ELSE format(PROMPTS.verification_prompt, [question_type |-> question_type])

\* Lines 120-140: the verification prompt of a question, or the exception the
\* formatting raises.
verification_prompt(q) ==
    LET template == select_verification_prompt(q.question_type)
    IN  IF template.kind = "raise" THEN template
        ELSE format(template.value,
                    [question |-> q.question,
                     answer |-> q.answer,
                     knowledge_point |-> q.knowledge_point,
                     knowledge_point_description |-> q.knowledge_point_description,
                     extra_requirement |-> q.extra_requirement])

\* Lines 169-180 of verify_exam_question_tool: the template of the question
\* type; the chain has no branch for brief_answer.
select_verification_prompt_tool(question_type) ==
    IF question_type \in {"single_choice", single_choice_zh}
    THEN Return(PROMPTS.single_choice_verification)
    ELSE IF question_type \in {"multi_choice", multi_choice_zh}
    THEN Return(PROMPTS.multi_choice_verification)
    ELSE IF question_type \in {"fill_blank", fill_blank_zh}
    THEN Return(PROMPTS.fill_blank_verification)
    ELSE IF question_type \in {"calculation", calculation_zh}
    THEN Return(PROMPTS.calculation_verification)
    ELSE format(PROMPTS.verification_prompt, [question_type |-> question_type])

\* Lines 169-187: the prompt verify_exam_question_tool sends.
verification_prompt_tool(q) ==
    LET template == select_verification_prompt_tool(q.question_type)
    IN  IF template.kind = "raise" THEN template
        ELSE format(template.value,
                    [question |-> q.question,
                     answer |-> q.answer,
                     knowledge_point |-> q.knowledge_point,
                     knowledge_point_description |-> q.knowledge_point_description,
                     extra_requirement |-> q.extra_requirement])

\* --------------------------------------------- values at the entry points
\* The Python values an entry point is called with and answers with.
None == [type |-> "NoneType"]
PyStr(s) == [type |-> "str", str |-> s]
PyInt(n) == [type |-> "int", int |-> n]
PyBool(b) == [type |-> "bool", bool |-> b]

\* bool(v): None, "", 0 and False are false.
bool(v) == v \notin {None, PyStr(""), PyInt(0), PyBool(FALSE)}
\* a or b
or(a, b) == IF bool(a) THEN a ELSE b
\* d.get(key, default)
get(d, key, default) == IF key \in DOMAIN d THEN d[key] ELSE default

\* str.strip()
RECURSIVE lstrip(_)
lstrip(s) ==
    IF s # "" /\ SubSeq(s, 1, 1) = " " THEN lstrip(SubSeq(s, 2, Len(s))) ELSE s
RECURSIVE rstrip(_)
rstrip(s) ==
    IF s # "" /\ SubSeq(s, Len(s), Len(s)) = " "
    THEN rstrip(SubSeq(s, 1, Len(s) - 1))
    ELSE s
strip(s) == rstrip(lstrip(s))

\* int(v): an int as it is; a string read as a decimal numeral with an
\* optional sign and surrounding blanks, ValueError when it is none.
Digits == "0123456789"
IsDigit(c) == \E d \in 1..Len(Digits) : SubSeq(Digits, d, d) = c
DigitValue(c) == (CHOOSE d \in 1..Len(Digits) : SubSeq(Digits, d, d) = c) - 1
RECURSIVE Decimal(_)
Decimal(s) ==
    IF s = "" THEN 0
    ELSE 10 * Decimal(SubSeq(s, 1, Len(s) - 1))
             + DigitValue(SubSeq(s, Len(s), Len(s)))
int(v) ==
    IF v.type = "int" THEN Return(v.int)
    ELSE IF v.type # "str" THEN Raise("TypeError")
    ELSE LET t == strip(v.str)
             signed == t # "" /\ SubSeq(t, 1, 1) \in {"-", "+"}
             numeral == IF signed THEN SubSeq(t, 2, Len(t)) ELSE t
         IN  IF numeral = ""
                \/ \E k \in 1..Len(numeral) : ~IsDigit(SubSeq(numeral, k, k))
             THEN Raise("ValueError")
             ELSE Return(IF signed /\ SubSeq(t, 1, 1) = "-"
                         THEN 0 - Decimal(numeral)
                         ELSE Decimal(numeral))

\* ------------------------------------------------------ schemas.py models
ExamQuestionFields ==
    {"question", "answer", "question_type", "knowledge_point",
     "knowledge_point_description", "extra_requirement"}
OptionalFields ==
    {"knowledge_point", "knowledge_point_description", "extra_requirement"}

\* ExamQuestion(**kwargs), lines 34-41: the six fields are required and of
\* type str; None or a missing field is a ValidationError.
ExamQuestion_init(kwargs) ==
    IF \E f \in ExamQuestionFields :
           f \notin DOMAIN kwargs \/ kwargs[f].type # "str"
    THEN Raise("ValidationError")
    ELSE Return(ExamQuestion([f \in ExamQuestionFields |-> kwargs[f].str]))

\* VerificationResult(**kwargs), lines 44-47: is_compliant (bool) and
\* suggestion (str) are required; other keywords are ignored.
VerificationResult_init(kwargs) ==
    IF \/ "is_compliant" \notin DOMAIN kwargs
       \/ "suggestion" \notin DOMAIN kwargs
    THEN Raise("ValidationError")
    ELSE IF kwargs.is_compliant.type # "bool" \/ kwargs.suggestion.type # "str"
    THEN Raise("ValidationError")
    ELSE Return(VerificationResult([is_compliant |-> kwargs.is_compliant.bool,
                                    suggestion |-> kwargs.suggestion.str]))

\* BaseModel.model_dump() of an ExamQuestion and of a VerificationResult.
\* Faulty variant: the fields with an empty value left out of the dump.
model_dump_exclude_empty(obj) ==
    [f \in {g \in DOMAIN obj : obj[g] # ""} |-> PyStr(obj[f])]
model_dump(obj) ==
    [f \in DOMAIN obj |->
        IF f = "is_compliant" THEN PyBool(obj[f]) ELSE PyStr(obj[f])]

\* QuestionType, lines 17-30: iterating the enum yields the five members
\* (the Chinese names are aliases of them and are not iterated).
QuestionType ==
    [SINGLE_CHOICE |-> "single_choice",
     MULTI_CHOICE |-> "multi_choice",
     FILL_BLANK |-> "fill_blank",
     BRIEF_ANSWER |-> "brief_answer",
     CALCULATION |-> "calculation"]

\* Lines 68-76: the before-validator of the five text fields.
\* Faulty variant: the validator left out, the lengths measured unstripped.
strip_strings_off(v) == v
strip_strings(v) == IF v.type = "str" THEN PyStr(strip(v.str)) ELSE v

\* Lines 78-88: the before-validator of question_type: a string equal to the
\* value or the name of a member becomes that member, dumped as its value.
normalize_question_type(v) ==
    IF v.type = "str"
       /\ \E item \in DOMAIN QuestionType :
              QuestionType[item] = v.str \/ item = v.str
    THEN PyStr(QuestionType[CHOOSE item \in DOMAIN QuestionType :
                                QuestionType[item] = v.str \/ item = v.str])
    ELSE v

question_min_length == 5
answer_min_length == 1

\* ExamQuestionRequest, lines 51-88: the validated model as model_dump()
\* gives it, or ValidationError.  question, answer and question_type are
\* required; question and answer are stripped and then measured; an optional
\* field left out is "", one given as null stays None.
ExamQuestionRequest(payload) ==
    LET required(f) == f \in DOMAIN payload /\ payload[f].type = "str"
        optional(f) == f \in DOMAIN payload => payload[f].type \in {"str", "NoneType"}
        text(f) == strip_strings(payload[f])
    IN  IF \/ ~required("question")
           \/ ~required("answer")
           \/ ~required("question_type")
           \/ \E f \in OptionalFields : ~optional(f)
        THEN Raise("ValidationError")
        ELSE IF \/ Len(text("question").str) < question_min_length
                \/ Len(text("answer").str) < answer_min_length
        THEN Raise("ValidationError")
        ELSE Return([f \in ExamQuestionFields |->
                        IF f = "question_type"
                        THEN normalize_question_type(payload[f])
                        ELSE IF f \in DOMAIN payload THEN text(f)
                        ELSE PyStr("")])

\* VerificationResultRequest, lines 104-107.
VerificationResultRequest(payload) ==
    IF "is_compliant" \notin DOMAIN payload
    THEN Raise("ValidationError")
    ELSE IF payload.is_compliant.type # "bool"
    THEN Raise("ValidationError")
    ELSE LET suggestion == get(payload, "suggestion", None)
         IN  IF suggestion.type \notin {"str", "NoneType"}
             THEN Raise("ValidationError")
             ELSE Return([is_compliant |-> payload.is_compliant,
                          suggestion |-> suggestion])

\* FixRequest, lines 110-113.
FixRequest(payload) ==
    IF {"exam_question", "verification_result"} \subseteq DOMAIN payload
    THEN LET eq == ExamQuestionRequest(payload.exam_question)
             vr == VerificationResultRequest(payload.verification_result)
         IN  IF eq.kind = "raise" THEN eq
             ELSE IF vr.kind = "raise" THEN vr
             ELSE Return([exam_question |-> eq.value,
                          verification_result |-> vr.value])
    ELSE Raise("ValidationError")

max_fix_attempts_default == 3
max_fix_attempts_ge == 1
max_fix_attempts_le == 5

\* VerifyAndFixRequest, lines 135-140.
VerifyAndFixRequest(payload) ==
    IF "exam_question" \notin DOMAIN payload THEN Raise("ValidationError")
    ELSE LET eq == ExamQuestionRequest(payload.exam_question)
             m == get(payload, "max_fix_attempts",
                      PyInt(max_fix_attempts_default))
         IN  IF eq.kind = "raise" THEN eq
             ELSE IF m.type # "int" THEN Raise("ValidationError")
             ELSE IF m.int < max_fix_attempts_ge \/ m.int > max_fix_attempts_le
             THEN Raise("ValidationError")
             ELSE Return([exam_question |-> eq.value,
                          max_fix_attempts |-> m.int])

\* ------------------------------------------------------------------- state
VARIABLES
    pc,                           \* position of each run of main
    i,                            \* loop variable of line 44 (-1: not bound yet)
    max_fix_attempts,             \* argument of main
    exam_question,                \* local exam_question of main
    exam_question_history,        \* line 41
    verification_result_history,  \* line 42
    result,                       \* how the call of main ended
    calls,                        \* agent calls each run has started, in order
    answers,                      \* how the agent calls of each run ended, in order
    args,                         \* the arguments each run was called with
    conf,                         \* CONF, the content of conf.yaml
    verifier,                     \* the module-level verifier of an entry module
    entry,                        \* the entry point that was called
    request,                      \* what it was called with
    response,                     \* how its call ended
    agent,                        \* the attributes of the agent instance
    services,                     \* the service objects created so far
    tasks,                        \* the calls of the agent's methods
    environ                       \* os.environ

loopVars == <<pc, i, max_fix_attempts, exam_question, exam_question_history,
              verification_result_history, result, calls, answers, args>>
entryVars == <<conf, verifier, entry, request, response>>
agentVars == <<agent, services, tasks, environ>>
vars == <<loopVars, entryVars, agentVars>>

\* The frame in which a run keeps exam_question_history and
\* verification_result_history: they are locals of the call (lines 41-42), not
\* attributes of the shared verifier instance.
\* Faulty variant: the histories kept on the shared verifier instance.
FrameShared(r) == 1
Frame(r) == r

\* The local state of run r, as one record.
Locals(r) ==
    [pc |-> pc[r],
     i |-> i[r],
     max_fix_attempts |-> max_fix_attempts[r],
     exam_question |-> exam_question[r],
     exam_question_history |-> exam_question_history[Frame(r)],
     verification_result_history |-> verification_result_history[Frame(r)],
     result |-> result[r],
     calls |-> calls[r]]

\* Run r's local state becomes L.
Store(r, L) ==
    /\ pc' = [pc EXCEPT ![r] = L.pc]
    /\ i' = [i EXCEPT ![r] = L.i]
    /\ max_fix_attempts' = [max_fix_attempts EXCEPT ![r] = L.max_fix_attempts]
    /\ exam_question' = [exam_question EXCEPT ![r] = L.exam_question]
    /\ exam_question_history' =
           [exam_question_history EXCEPT ![Frame(r)] = L.exam_question_history]
    /\ verification_result_history' =
           [verification_result_history EXCEPT
                ![Frame(r)] = L.verification_result_history]
    /\ result' = [result EXCEPT ![r] = L.result]
    /\ calls' = [calls EXCEPT ![r] = L.calls]

\* ------------------------------------------------- the steps of one run
\* Lines 59-62: main returns the last question of the history.
main_return(L) ==
    [L EXCEPT !.pc = "returned",
              !.result = Return(Last(L.exam_question_history))]

\* Lines 44-57 hold no try/except: an exception raised inside an awaited call
\* or by the loop body leaves main as it is.
\* Faulty variants: the exception caught and the last question returned; the
\* exception caught and the failed call started again.
main_raise_swallowed(L, e) ==
    [L EXCEPT !.pc = "returned",
              !.result = Return(Last(L.exam_question_history))]
main_raise_retried(L, e) ==
    [L EXCEPT !.calls = Append(@, Last(L.calls))]
main_raise(L, e) ==
    [L EXCEPT !.pc = "raised", !.result = Raise(e)]

\* Line 47 into verify_exam_question (lines 112-142): the prompt is built from
\* the last question of the history and the agent call is awaited with it; an
\* exception of the formatting leaves verify_exam_question and main.
\* Faulty variant: the agent call started twice without awaiting the first.
verify_exam_question_twice(L) ==
    LET call == [op |-> "judge",
                 exam_question |-> Last(L.exam_question_history),
                 prompt |-> verification_prompt(Last(L.exam_question_history)).value]
    IN  [L EXCEPT !.pc = "verify", !.calls = @ \o <<call, call>>]
verify_exam_question(L) ==
    LET q == Last(L.exam_question_history)
        prompt == verification_prompt(q)
    IN  IF prompt.kind = "raise"
        THEN main_raise(L, prompt.error)
        ELSE [L EXCEPT !.pc = "verify",
                       !.calls = Append(@, [op |-> "judge",
                                            exam_question |-> q,
                                            prompt |-> prompt.value])]

\* Line 44: for i in range(max_fix_attempts): the next iteration, or the end
\* of the loop.
for_next(L) ==
    IF L.i + 1 < L.max_fix_attempts
    THEN verify_exam_question([L EXCEPT !.i = @ + 1])
    ELSE main_return(L)

\* The locals of a coroutine of the verifier called with question q (and
\* attempt count m): for main, lines 41-42.
frame(q, m) ==
    [pc |-> "entered",
     i |-> -1,
     max_fix_attempts |-> m,
     exam_question |-> q,
     exam_question_history |-> <<q>>,
     verification_result_history |-> <<>>,
     result |-> NoResult,
     calls |-> <<>>]

\* Lines 41-47: the call of main up to its first await.
main_enter(q, m) == for_next(frame(q, m))

\* Lines 216-232 of fix_exam_question: the fix prompt is built from the question
\* and the suggestion of the verification result, and the agent call is awaited.
fix_call(L, q, vr) ==
    [L EXCEPT !.pc = "fix",
              !.calls = Append(@, [op |-> "rewrite",
                                   exam_question |-> q,
                                   verification_result |-> vr])]

\* Lines 55-57: the question fix_exam_question returned becomes the local
\* exam_question and is appended to the history; then the loop goes on.
after_fix(L, q) ==
    for_next([L EXCEPT !.exam_question = q,
                       !.exam_question_history = Append(@, q)])

\* fix_exam_question (lines 213-232): a result read as compliant returns the
\* question as it is, any other starts the agent call.
fix_exam_question(L, q, vr) ==
    IF ~HasAttr(vr, "Compliance")
    THEN main_raise(L, "AttributeError")
    ELSE IF vr.Compliance
         THEN after_fix(L, q)
         ELSE fix_call(L, q, vr)

\* Lines 47-55: the awaited verify_exam_question returned VerificationResult
\* (**res.metadata); it is appended to the history, and the loop reads its
\* attribute Compliance to break or to go on with fix_exam_question.  The
\* record of schemas.py has the fields is_compliant and suggestion only, so
\* the read of line 51 raises AttributeError, which leaves main.
\* Faulty variants: the result passed to the rewrite without reading its
\* verdict; the judge call repeated until a verdict can be read; the
\* suggestion written into the judged question in place.
after_verify_no_check(L, md) ==
    LET vr == VerificationResult(md)
        L1 == [L EXCEPT !.verification_result_history = Append(@, vr)]
    IN  fix_call(L1, Last(L1.exam_question_history), vr)
after_verify_retry(L, md) == [L EXCEPT !.calls = Append(@, Last(L.calls))]
after_verify_in_place(L, md) ==
    main_raise([L EXCEPT !.exam_question_history[Len(L.exam_question_history)]
                              .extra_requirement = md.suggestion],
               "AttributeError")
after_verify(L, md) ==
    LET vr == VerificationResult(md)
        L1 == [L EXCEPT !.verification_result_history = Append(@, vr)]
    IN  IF ~HasAttr(vr, "Compliance")
        THEN main_raise(L1, "AttributeError")
        ELSE IF vr.Compliance
             THEN main_return(L1)
             ELSE fix_exam_question(L1, Last(L1.exam_question_history), vr)

\* The run goes on after its awaited agent call returned res with
\* res.metadata = md: line 144 and on after a judge call, line 234 and on
\* after a rewrite call.
resume(L, md) ==
    IF L.pc = "verify"
    THEN after_verify(L, md)
    ELSE after_fix(L, ExamQuestion(md))

\* What an agent call can return: an object of its structured_model.
Metadata(p) ==
    IF p = "verify" THEN VerificationMetadata ELSE ExamQuestionMetadata

\* --------------------------------------------------------------- actions
Init ==
    /\ pc = [r \in Runs |-> "idle"]
    /\ i = [r \in Runs |-> -1]
    /\ max_fix_attempts = [r \in Runs |-> 0]
    /\ exam_question = [r \in Runs |-> "None"]
    /\ exam_question_history = [r \in Runs |-> <<>>]
    /\ verification_result_history = [r \in Runs |-> <<>>]
    /\ result = [r \in Runs |-> NoResult]
    /\ calls = [r \in Runs |-> <<>>]
    /\ answers = [r \in Runs |-> <<>>]
    /\ args = [r \in Runs |-> "None"]
    /\ conf = "None"
    /\ verifier = "None"
    /\ entry = "None"
    /\ request = "None"
    /\ response = NoResult
    /\ agent = "None"
    /\ services = "None"
    /\ tasks = "None"
    /\ environ = "None"

\* A caller awaits verifier.main(q, m).
main(r, q, m) ==
    /\ pc[r] = "idle"
    /\ Store(r, main_enter(q, m))
    /\ args' = [args EXCEPT ![r] = [exam_question |-> q, max_fix_attempts |-> m]]
    /\ UNCHANGED answers
    /\ UNCHANGED <<entryVars, agentVars>>

\* The agent call run r awaits returns a message with metadata md.
AgentReply(r, md) ==
    /\ pc[r] \in {"verify", "fix"}
    /\ Len(answers[r]) < Len(calls[r])
    /\ Store(r, resume(Locals(r), md))
    /\ answers' = [answers EXCEPT ![r] = Append(@, [ok |-> TRUE, metadata |-> md])]
    /\ UNCHANGED args
    /\ UNCHANGED <<entryVars, agentVars>>

\* The agent call run r awaits raises e.
AgentFails(r, e) ==
    /\ pc[r] \in {"verify", "fix"}
    /\ Len(answers[r]) < Len(calls[r])
    /\ Store(r, main_raise(Locals(r), e))
    /\ answers' = [answers EXCEPT ![r] = Append(@, [ok |-> FALSE, error |-> e])]
    /\ UNCHANGED args
    /\ UNCHANGED <<entryVars, agentVars>>

Next ==
    \E r \in Runs :
        \/ \E q \in ExamQuestions, m \in AttemptCounts : main(r, q, m)
        \/ \E md \in Metadata(pc[r]) : AgentReply(r, md)
        \/ \E e \in Errors : AgentFails(r, e)

Spec == Init /\ [][Next]_vars

\* Every agent call eventually returns or fails.
AgentEnds(r) ==
    \/ \E md \in Metadata(pc[r]) : AgentReply(r, md)
    \/ \E e \in Errors : AgentFails(r, e)

FairSpec == Spec /\ \A r \in Runs : WF_vars(AgentEnds(r))

\* ------------------------------------------------------ what a run has done
Finished(r) == pc[r] \in {"returned", "raised"}
Awaiting(r) == pc[r] \in {"verify", "fix"}

\* The calls of run r with operation op, and those of them that have ended.
CallsOf(r, op) == {n \in 1..Len(calls[r]) : calls[r][n].op = op}
AnsweredOf(r, op) == {n \in CallsOf(r, op) : n <= Len(answers[r])}
JudgeCalls(r) == Cardinality(CallsOf(r, "judge"))
RewriteCalls(r) == Cardinality(CallsOf(r, "rewrite"))

AllAnswersOk(r) == \A n \in 1..Len(answers[r]) : answers[r][n].ok
Compliant(r, n) == answers[r][n].ok /\ answers[r][n].metadata.is_compliant
NonCompliant(r, n) == answers[r][n].ok /\ ~answers[r][n].metadata.is_compliant

MaxOf(S) == CHOOSE n \in S : \A k \in S : k <= n

\* The question the last ended rewrite call of run r produced.
LastRewritten(r) ==
    ExamQuestion(answers[r][MaxOf(AnsweredOf(r, "rewrite"))].metadata)

\* ---------------------------------------------------------------- claims
\* C1: for every maxAttempts >= 1, when the first judge call returns compliant
\* the loop returns the original question after exactly one judge call and no
\* rewrite call.
C1_CompliantFirstReturnsOriginal ==
    \A r \in Runs :
        (/\ pc[r] # "idle"
         /\ max_fix_attempts[r] >= 1
         /\ Len(answers[r]) >= 1
         /\ Compliant(r, 1))
        => /\ result[r] = Return(args[r].exam_question)
           /\ JudgeCalls(r) = 1
           /\ RewriteCalls(r) = 0

\* C2: when the judge answers non-compliant on its first k < maxAttempts calls
\* and compliant on call k+1, the loop makes exactly k+1 judge calls and k
\* rewrite calls and returns the question of the k-th rewrite (the original
\* question when k = 0).
C2_CompliantAfterKRewrites ==
    \A r \in Runs : \A k \in 0..MaxAttempts :
        (/\ pc[r] # "idle"
         /\ k < max_fix_attempts[r]
         /\ AllAnswersOk(r)
         /\ Cardinality(AnsweredOf(r, "judge")) = k + 1
         /\ \A n \in AnsweredOf(r, "judge") :
                Compliant(r, n) <=> n = MaxOf(AnsweredOf(r, "judge")))
        => /\ pc[r] = "returned"
           /\ JudgeCalls(r) = k + 1
           /\ RewriteCalls(r) = k
           /\ result[r] = Return(IF k = 0 THEN args[r].exam_question
                                 ELSE LastRewritten(r))

\* C3: when the judge answers non-compliant on every call, the loop makes
\* exactly maxAttempts judge calls and maxAttempts rewrite calls, starts no
\* further iteration, and returns the question of the last rewrite call
\* without raising.
C3_ExhaustedReturnsLastRewrite ==
    \A r \in Runs :
        /\ i[r] < max_fix_attempts[r] \/ i[r] = -1
        /\ (/\ Finished(r)
            /\ max_fix_attempts[r] >= 1
            /\ AllAnswersOk(r)
            /\ \A n \in AnsweredOf(r, "judge") : NonCompliant(r, n))
           => /\ pc[r] = "returned"
              /\ JudgeCalls(r) = max_fix_attempts[r]
              /\ RewriteCalls(r) = max_fix_attempts[r]
              /\ result[r] = Return(LastRewritten(r))

\* C4: provided every agent call returns or fails, every run ends: a run
\* never starts more than two calls per allowed attempt, and a run that awaits
\* a call is eventually finished.
C4_Terminates ==
    /\ [](\A r \in Runs :
              /\ Len(calls[r]) <= 2 * max_fix_attempts[r]
              /\ i[r] < max_fix_attempts[r] \/ i[r] = -1)
    /\ \A r \in Runs : Awaiting(r) ~> Finished(r)

\* A run called with the largest attempt count has ended after a
\* non-compliant verdict.
C4_Witness ==
    \E r \in Runs :
        /\ Finished(r)
        /\ max_fix_attempts[r] = MaxAttempts
        /\ Len(answers[r]) >= 1
        /\ NonCompliant(r, 1)

\* C5: a rewrite call is started only with a verification result whose
\* is_compliant is false, and no call follows a judge call that returned
\* compliant.
C5_RewriteOnlyNonCompliant ==
    \A r \in Runs :
        /\ \A n \in CallsOf(r, "rewrite") :
               calls[r][n].verification_result.is_compliant = FALSE
        /\ \A n \in AnsweredOf(r, "judge") :
               Compliant(r, n) => Len(calls[r]) = n

\* A run has ended after a compliant verdict without any rewrite call.
C5_Witness ==
    \E r \in Runs :
        /\ Finished(r)
        /\ Len(answers[r]) >= 1
        /\ Compliant(r, 1)
        /\ Last(verification_result_history[r]).is_compliant
        /\ RewriteCalls(r) = 0

\* C6: when a judge or rewrite call fails, the call of main ends with that
\* same failure and returns no question.
C6_FailurePropagates ==
    \A r \in Runs : \A n \in 1..Len(answers[r]) :
        ~answers[r][n].ok
        => /\ pc[r] = "raised"
           /\ result[r] = Raise(answers[r][n].error)

\* The last call of a run failed with ModelInvocationError and the run raised.
C6_Witness ==
    \E r \in Runs :
        /\ Len(answers[r]) >= 1
        /\ ~Last(answers[r]).ok
        /\ Last(answers[r]).error = "ModelInvocationError"
        /\ result[r].kind = "raise"

\* C7: after the first failed call a run makes no further call: the failed
\* call is the last one started, and a failed judge call leaves no verdict in
\* the verification history.
C7_NoCallAfterFailure ==
    \A r \in Runs :
        /\ \A n \in 1..Len(answers[r]) :
               ~answers[r][n].ok
               => Len(calls[r]) = n /\ Len(answers[r]) = n
        /\ Len(verification_result_history[r])
               = Cardinality({n \in AnsweredOf(r, "judge") : answers[r][n].ok})

\* The only call of a run, a judge call, failed.
C7_Witness ==
    \E r \in Runs :
        /\ Len(answers[r]) = 1
        /\ ~answers[r][1].ok
        /\ calls[r][1].op = "judge"
        /\ Len(calls[r]) = 1
        /\ verification_result_history[r] = <<>>

\* The state of a run in the state machine of the loop.
RunState(r) ==
    CASE Awaiting(r) -> "Judging"
      [] pc[r] = "returned" /\ verification_result_history[r] # <<>>
             /\ Last(verification_result_history[r]).is_compliant -> "Compliant"
      [] pc[r] = "returned" -> "Exhausted"
      [] OTHER -> "None"

\* C8: a run whose calls all succeed is in Judging, Compliant or Exhausted; it
\* is in Compliant exactly when its last judge call returned compliant, in
\* Exhausted exactly when maxAttempts judge calls returned non-compliant, in
\* Judging otherwise; a run in Compliant or Exhausted has no call outstanding.
C8_StateMachine ==
    \A r \in Runs :
        (pc[r] # "idle" /\ max_fix_attempts[r] >= 1 /\ AllAnswersOk(r))
        => LET J == AnsweredOf(r, "judge")
               compliant == J # {} /\ Compliant(r, MaxOf(J))
               exhausted == /\ Cardinality(J) = max_fix_attempts[r]
                            /\ \A n \in J : NonCompliant(r, n)
                            /\ Cardinality(AnsweredOf(r, "rewrite"))
                                   = max_fix_attempts[r]
           IN  /\ RunState(r) \in {"Judging", "Compliant", "Exhausted"}
               /\ RunState(r) = "Compliant" <=> compliant
               /\ RunState(r) = "Exhausted" <=> exhausted
               /\ RunState(r) = "Judging" <=> ~compliant /\ ~exhausted
               /\ RunState(r) # "Judging" => Len(calls[r]) = Len(answers[r])

\* C9: a run has at most one agent call outstanding, and exactly one while it
\* awaits; its calls alternate judge, rewrite, judge, ... starting with judge;
\* iteration i holds one judge call and at most one rewrite call.
C9_SequentialCalls ==
    \A r \in Runs :
        /\ Len(calls[r]) - Len(answers[r]) = (IF Awaiting(r) THEN 1 ELSE 0)
        /\ \A n \in 1..Len(calls[r]) :
               calls[r][n].op = (IF n % 2 = 1 THEN "judge" ELSE "rewrite")
        /\ JudgeCalls(r) = i[r] + 1
        /\ RewriteCalls(r) \in {JudgeCalls(r) - 1, JudgeCalls(r)}

\* The judge call of the first iteration has returned.
C9_Witness ==
    \E r \in Runs :
        /\ Len(calls[r]) = 1
        /\ Len(answers[r]) = 1
        /\ answers[r][1].ok
        /\ calls[r][1].op = "judge"

\* The local state of a run that is alone, called with arguments a, after
\* its agent calls ended as in ans.
RECURSIVE Replay(_, _)
Replay(a, ans) ==
    IF ans = <<>>
    THEN main_enter(a.exam_question, a.max_fix_attempts)
    ELSE LET L == Replay(a, Front(ans))
             x == Last(ans)
         IN  IF x.ok THEN resume(L, x.metadata) ELSE main_raise(L, x.error)

\* C10: with runs interleaved at their awaits, the local state of every run
\* (position, questions, verdicts, calls made, result) is the one it has when
\* it runs alone with the same arguments and the same answers.
C10_RunsIndependent ==
    \A r \in Runs :
        pc[r] # "idle" => Locals(r) = Replay(args[r], answers[r])

\* A run awaits its judge call while another run, called with another
\* question, has had its judge call answered.
C10_Witness ==
    \E r1, r2 \in Runs :
        /\ r1 # r2
        /\ pc[r1] = "verify"
        /\ Len(answers[r2]) = 1
        /\ pc[r2] = "raised"
        /\ args[r1].exam_question # args[r2].exam_question
        /\ exam_question_history[r1] = <<args[r1].exam_question>>

\* ----------------------------------------------------------- entry modules
\* os.getenv(name): the environment sets none of the variables read.
os_getenv(name) == None

\* build_exam_verifier, lines 294-323: a formatter and a model for deepseek
\* and for dashscope; with any other binding the names stay unbound, and the
\* exception of line 318 is raised again as RuntimeError (line 323).
build_exam_verifier(llm_binding) ==
    IF llm_binding = "deepseek"
    THEN Return([formatter |-> "DeepSeekChatFormatter",
                 model |-> "OpenAIChatModel"])
    ELSE IF llm_binding = "dashscope"
    THEN Return([formatter |-> "DashScopeChatFormatter",
                 model |-> "DashScopeChatModel"])
    ELSE Raise("RuntimeError")

\* fastapi_server.py lines 49-60 (eqv_agent.py lines 41-52 are the same): the
\* module-level verifier, built when the module is imported.
module_verifier(CONF) ==
    LET LLM_BINDING == or(or(get(CONF, "LLM_BINDING", None),
                             os_getenv("LLM_BINDING")),
                          PyStr("deepseek"))
    IN  build_exam_verifier(IF LLM_BINDING \in {PyStr("deepseek"),
                                                PyStr("dashscope")}
                            THEN LLM_BINDING.str
                            ELSE "deepseek")

\* The methods of class ExamQuestionVerification (lines 32, 64, 102, 146,
\* 203, 236); any other attribute read on the verifier raises AttributeError.
ExamQuestionVerification ==
    {"main", "agent_main", "verify_exam_question",
     "verify_exam_question_tool", "fix_exam_question",
     "fix_exam_question_tool"}

\* The locals of a run no coroutine of which has been called.
Idle ==
    [pc |-> "idle", i |-> -1, max_fix_attempts |-> 0, exam_question |-> "None",
     exam_question_history |-> <<>>, verification_result_history |-> <<>>,
     result |-> NoResult, calls |-> <<>>]

\* What a call of an entry point has come to: the locals of the verifier
\* coroutine it called (Idle when it called none), and its answer.
Outcome(L, r) == [L |-> L, response |-> r]

JSONResponse(status_code, content) ==
    [kind |-> "http", status_code |-> status_code, content |-> content]
StandardResponse(code, message, data) ==
    [code |-> code, message |-> message, data |-> data]

\* FastAPI answers a body that fails the validation of the handler's
\* parameter model with 422, without calling the handler.
Unprocessable == JSONResponse(422, [detail |-> "ValidationError"])

HttpEntries == {"verify_endpoint", "fix_endpoint", "verify_and_fix_endpoint"}
ToolEntries ==
    {"verify_exam_question_tool", "fix_exam_question_tool",
     "verify_and_fix_exam_question_tool"}

\* The f-string prefix of each handler's error message (lines 93, 112, 132).
ErrorPrefix(e) ==
    CASE e = "verify_endpoint" -> "verify failed: "
      [] e = "fix_endpoint" -> "fix failed: "
      [] e = "verify_and_fix_endpoint" -> "verify+fix failed: "

\* fastapi_server.py lines 90-94, 109-113, 129-133: except Exception as e
\* around the whole body of each handler.
\* Faulty variant: the handler without its except clause.
handler_except_none(e, error) == Raise(error)
handler_except(e, error) ==
    JSONResponse(500, [code |-> 500,
                       message |-> ErrorPrefix(e) \o error,
                       data |-> None])

\* eqv_agent.py lines 54-184: the tools have no try/except; an exception
\* leaves the tool call.
tool_except(e, error) == Raise(error)

\* The end of an entry point whose awaited verifier coroutine is at L: the
\* returned record dumped into the answer, or the exception handled.
finish(e, L) ==
    IF L.pc = "returned"
    THEN IF e \in HttpEntries
         THEN JSONResponse(200, StandardResponse(0, "ok",
                                                 model_dump(L.result.value)))
         ELSE Return(model_dump(L.result.value))
    ELSE IF L.pc = "raised"
    THEN IF e \in HttpEntries
         THEN handler_except(e, L.result.error)
         ELSE tool_except(e, L.result.error)
    ELSE NoResult

\* An exception in the entry point itself, before any verifier coroutine.
fail(e, error) ==
    Outcome(Idle, IF e \in HttpEntries
                  THEN handler_except(e, error)
                  ELSE tool_except(e, error))

\* The entry point awaits a verifier coroutine that is at L.
await(e, L) == Outcome(L, finish(e, L))

\* verify_exam_question and fix_exam_question awaited by an entry point and
\* not by main: lines 102-144 and 203-234.
verify_exam_question_alone(q) == verify_exam_question(frame(q, 0))
fix_exam_question_alone(q, vr) ==
    LET L == frame(q, 0)
    IN  IF ~HasAttr(vr, "Compliance") THEN main_raise(L, "AttributeError")
        ELSE IF vr.Compliance
             THEN [L EXCEPT !.pc = "returned", !.result = Return(q)]
             ELSE fix_call(L, q, vr)

\* fastapi_server.py lines 85-94.
verify_endpoint(body) ==
    LET e == "verify_endpoint"
        payload == ExamQuestionRequest(body)
        eq == ExamQuestion_init(payload.value)
    IN  IF payload.kind = "raise" THEN Outcome(Idle, Unprocessable)
        ELSE IF eq.kind = "raise" THEN fail(e, eq.error)
        ELSE await(e, verify_exam_question_alone(eq.value))

\* fastapi_server.py lines 103-113.
fix_endpoint(body) ==
    LET e == "fix_endpoint"
        payload == FixRequest(body)
        eq == ExamQuestion_init(payload.value.exam_question)
        ver == VerificationResult_init(payload.value.verification_result)
    IN  IF payload.kind = "raise" THEN Outcome(Idle, Unprocessable)
        ELSE IF eq.kind = "raise" THEN fail(e, eq.error)
        ELSE IF ver.kind = "raise" THEN fail(e, ver.error)
        ELSE await(e, fix_exam_question_alone(eq.value, ver.value))

\* fastapi_server.py lines 122-133: the handler calls a method
\* verify_and_fix_exam_question of the verifier.
verify_and_fix_endpoint(body) ==
    LET e == "verify_and_fix_endpoint"
        payload == VerifyAndFixRequest(body)
        eq == ExamQuestion_init(payload.value.exam_question)
    IN  IF payload.kind = "raise" THEN Outcome(Idle, Unprocessable)
        ELSE IF eq.kind = "raise" THEN fail(e, eq.error)
        ELSE IF "verify_and_fix_exam_question" \notin ExamQuestionVerification
        THEN fail(e, "AttributeError")
        ELSE await(e, main_enter(eq.value, payload.value.max_fix_attempts))

\* The keyword arguments of a tool call with the defaults of its signature
\* (eqv_agent.py lines 55-62) for the parameters the caller left out.
tool_kwargs(kwargs) ==
    [f \in ExamQuestionFields |->
        IF f \in DOMAIN kwargs THEN kwargs[f]
        ELSE IF f = "extra_requirement" THEN None
        ELSE PyStr("")]

\* eqv_agent.py lines 54-93.
verify_exam_question_tool(kwargs) ==
    LET e == "verify_exam_question_tool"
        eq == ExamQuestion_init(tool_kwargs(kwargs))
    IN  IF eq.kind = "raise" THEN fail(e, eq.error)
        ELSE await(e, verify_exam_question_alone(eq.value))

\* eqv_agent.py lines 95-142: the verification result is built with the
\* keywords Compliance and suggestion.
fix_exam_question_tool(kwargs) ==
    LET e == "fix_exam_question_tool"
        eq == ExamQuestion_init(tool_kwargs(kwargs))
        vr == VerificationResult_init([Compliance |-> kwargs.Compliance,
                                       suggestion |-> kwargs.suggestion])
    IN  IF eq.kind = "raise" THEN fail(e, eq.error)
        ELSE IF vr.kind = "raise" THEN fail(e, vr.error)
        ELSE await(e, fix_exam_question_alone(eq.value, vr.value))

\* eqv_agent.py lines 144-184: the attempt count is read from CONF (line 176).
verify_and_fix_exam_question_tool(kwargs, CONF) ==
    LET e == "verify_and_fix_exam_question_tool"
        eq == ExamQuestion_init(tool_kwargs(kwargs))
        m == int(or(get(CONF, "MAX_FIX_ATTEMPTS", PyStr("3")), PyStr("3")))
    IN  IF eq.kind = "raise" THEN fail(e, eq.error)
        ELSE IF m.kind = "raise" THEN fail(e, m.error)
        ELSE await(e, main_enter(eq.value, m.value))

\* The verifier coroutine an entry point awaits goes on after its agent call
\* returned metadata md: verify_exam_question line 144, fix_exam_question
\* line 234, or the loop of main.
entry_resume(e, L, md) ==
    IF e \in {"verify_endpoint", "verify_exam_question_tool"}
    THEN [L EXCEPT !.pc = "returned",
                   !.result = Return(VerificationResult(md))]
    ELSE IF e \in {"fix_endpoint", "fix_exam_question_tool"}
    THEN [L EXCEPT !.pc = "returned", !.result = Return(ExamQuestion(md))]
    ELSE resume(L, md)

\* ------------------------------------------------- entry points: inputs
\* All functions from a subset of the keys of the record of sets R, holding
\* the required keys, to the values R allows for each key: JSON objects and
\* keyword arguments some keys of which are left out.
RECURSIVE PartialOver(_, _, _)
PartialOver(R, keys, required) ==
    IF keys = {} THEN {[k \in {} |-> None]}
    ELSE LET key == CHOOSE k \in keys : TRUE
             rest == PartialOver(R, keys \ {key}, required)
         IN  {(key :> v) @@ o : o \in rest, v \in R[key]}
                 \cup (IF key \in required THEN {} ELSE rest)
Partial(R, required) == PartialOver(R, DOMAIN R, required)

\* conf.yaml as yaml.safe_load gives it.
Confs ==
    Partial([LLM_BINDING |-> {PyStr("dashscope"), PyStr("openai")},
             MAX_FIX_ATTEMPTS |-> {PyInt(2), PyInt(0), PyInt(-1),
                                   PyStr("0"), PyStr("abc"), PyStr("")}],
            {})

\* The exam question of a request body.
ExamQuestionBodies ==
    Partial([question |-> {PyStr("What is 2+2?"), PyStr("  2+2? ")},
             answer |-> {PyStr("4"), PyStr(" ")},
             question_type |-> {PyStr("calculation"), PyStr("unknown_tag")},
             knowledge_point |-> {PyStr("arithmetic")},
             extra_requirement |-> {None, PyStr(" show work ")}],
            {"question", "answer"})

VerificationResultBodies ==
    Partial([is_compliant |-> {PyBool(FALSE)},
             suggestion |-> {PyStr("too trivial")}],
            {"is_compliant"})
        \cup {[is_compliant |-> PyBool(TRUE), suggestion |-> PyStr("")]}

FixBodies ==
    [exam_question : ExamQuestionBodies,
     verification_result : VerificationResultBodies]

VerifyAndFixBodies ==
    Partial([exam_question |-> ExamQuestionBodies,
             max_fix_attempts |-> {PyInt(max_fix_attempts_ge - 1),
                                   PyInt(max_fix_attempts_ge),
                                   PyInt(max_fix_attempts_le + 1)}],
            {"exam_question"})

\* The keyword arguments of a tool call.
ToolKwargs ==
    Partial([question |-> {PyStr("What is 2+2?")},
             answer |-> {PyStr("4")},
             question_type |-> {PyStr("calculation"), PyStr("unknown_tag")},
             knowledge_point |-> {PyStr("arithmetic")},
             extra_requirement |-> {PyStr(""), PyStr("show work")}],
            {"question", "answer", "question_type"})

FixToolKwargs ==
    {[f \in DOMAIN k \cup {"Compliance", "suggestion"} |->
         IF f = "Compliance" THEN PyBool(c)
         ELSE IF f = "suggestion" THEN PyStr("too trivial")
         ELSE k[f]] : k \in ToolKwargs, c \in BOOLEAN}

\* ------------------------------------------------ entry points: actions
\* The run whose locals hold the verifier coroutine of the entry point.
EntryRun == 1

EntryInit ==
    /\ pc = [r \in Runs |-> "idle"]
    /\ i = [r \in Runs |-> -1]
    /\ max_fix_attempts = [r \in Runs |-> 0]
    /\ exam_question = [r \in Runs |-> "None"]
    /\ exam_question_history = [r \in Runs |-> <<>>]
    /\ verification_result_history = [r \in Runs |-> <<>>]
    /\ result = [r \in Runs |-> NoResult]
    /\ calls = [r \in Runs |-> <<>>]
    /\ answers = [r \in Runs |-> <<>>]
    /\ args = [r \in Runs |-> "None"]
    /\ conf \in Confs
    /\ verifier = module_verifier(conf)
    /\ entry = "None"
    /\ request = "None"
    /\ response = NoResult
    /\ agent = "None"
    /\ services = "None"
    /\ tasks = "None"
    /\ environ = "None"

\* Entry point e is called with req and runs up to its first await or to
\* its end, which is out.
Call(e, req, out) ==
    /\ verifier.kind = "return"
    /\ entry' = e
    /\ request' = req
    /\ Store(EntryRun, out.L)
    /\ response' = out.response
    /\ args' = [args EXCEPT ![EntryRun] =
                    IF out.L.max_fix_attempts # 0 \/ out.L.pc = "returned"
                    THEN [exam_question |-> out.L.exam_question,
                          max_fix_attempts |-> out.L.max_fix_attempts]
                    ELSE @]
    /\ UNCHANGED <<answers, conf, verifier, agentVars>>

\* A client posts body to /api/v1/verify, /api/v1/fix, /api/v1/verify-and-fix.
PostVerify(body) ==
    /\ entry = "None"
    /\ Call("verify_endpoint", body, verify_endpoint(body))
PostFix(body) ==
    /\ entry = "None"
    /\ Call("fix_endpoint", body, fix_endpoint(body))
PostVerifyAndFix(body) ==
    /\ entry = "None"
    /\ Call("verify_and_fix_endpoint", body, verify_and_fix_endpoint(body))

\* The planning agent calls a tool with keyword arguments kwargs.
CallVerifyTool(kwargs) ==
    /\ entry = "None"
    /\ Call("verify_exam_question_tool", kwargs,
            verify_exam_question_tool(kwargs))
CallFixTool(kwargs) ==
    /\ entry = "None"
    /\ Call("fix_exam_question_tool", kwargs, fix_exam_question_tool(kwargs))
CallVerifyAndFixTool(kwargs) ==
    /\ entry = "None"
    /\ Call("verify_and_fix_exam_question_tool", kwargs,
            verify_and_fix_exam_question_tool(kwargs, conf))

\* The agent call the entry point's coroutine awaits returns metadata md.
EntryAgentReply(md) ==
    /\ entry # "None"
    /\ pc[EntryRun] \in {"verify", "fix"}
    /\ LET L == entry_resume(entry, Locals(EntryRun), md)
       IN  /\ Store(EntryRun, L)
           /\ response' = finish(entry, L)
    /\ answers' = [answers EXCEPT
                      ![EntryRun] = Append(@, [ok |-> TRUE, metadata |-> md])]
    /\ UNCHANGED <<args, conf, verifier, entry, request, agentVars>>

\* The agent call the entry point's coroutine awaits raises error.
EntryAgentFails(error) ==
    /\ entry # "None"
    /\ pc[EntryRun] \in {"verify", "fix"}
    /\ LET L == main_raise(Locals(EntryRun), error)
       IN  /\ Store(EntryRun, L)
           /\ response' = finish(entry, L)
    /\ answers' = [answers EXCEPT
                      ![EntryRun] = Append(@, [ok |-> FALSE, error |-> error])]
    /\ UNCHANGED <<args, conf, verifier, entry, request, agentVars>>

EntryNext ==
    \/ \E body \in ExamQuestionBodies : PostVerify(body)
    \/ \E body \in FixBodies : PostFix(body)
    \/ \E body \in VerifyAndFixBodies : PostVerifyAndFix(body)
    \/ \E kwargs \in ToolKwargs : CallVerifyTool(kwargs)
    \/ \E kwargs \in FixToolKwargs : CallFixTool(kwargs)
    \/ \E kwargs \in ToolKwargs : CallVerifyAndFixTool(kwargs)
    \/ \E md \in Metadata(pc[EntryRun]) : EntryAgentReply(md)
    \/ \E error \in Errors : EntryAgentFails(error)

EntrySpec == EntryInit /\ [][EntryNext]_vars

\* ------------------------------------------------- claims on entry points
LoopEntries == {"verify_and_fix_endpoint", "verify_and_fix_exam_question_tool"}

\* The entry point has answered with a question record.
AnsweredQuestion ==
    \/ response.kind = "return"
    \/ response.kind = "http" /\ response.status_code = 200

\* C11: an entry point that runs the verify-fix loop never runs it with an
\* attempt count below 1, and never answers with a question without a judge
\* call having been made.
C11_AttemptsAtLeastOne ==
    entry \in LoopEntries
    => /\ pc[EntryRun] # "idle" => max_fix_attempts[EntryRun] >= 1
       /\ AnsweredQuestion => JudgeCalls(EntryRun) >= 1

\* The uniform error answer of an HTTP handler for exception error.
ErrorEnvelope(e, error) ==
    JSONResponse(500, [code |-> 500,
                       message |-> ErrorPrefix(e) \o error,
                       data |-> None])

\* C12: an HTTP handler lets no exception escape: its answer to a validated
\* request is either status 200 with code 0, given only when the verifier
\* coroutine returned, or status 500 with {code: 500, message, data: null};
\* an exception of the verifier coroutine is answered with the latter.
C12_HttpErrorsEnveloped ==
    entry \in HttpEntries
    => /\ response.kind \in {"none", "http"}
       /\ response.kind = "none" <=> Awaiting(EntryRun)
       /\ (response.kind = "http" /\ response # Unprocessable)
          => \/ /\ response.status_code = 200
                /\ response.content.code = 0
                /\ pc[EntryRun] = "returned"
             \/ \E error \in Errors \cup {"AttributeError", "KeyError"} :
                    response = ErrorEnvelope(entry, error)
       /\ pc[EntryRun] = "raised"
          => response = ErrorEnvelope(entry, result[EntryRun].error)

\* The judge call of a verify request failed and the handler answered 500.
C12_Witness ==
    /\ entry = "verify_endpoint"
    /\ Len(answers[EntryRun]) = 1
    /\ ~answers[EntryRun][1].ok
    /\ response.kind = "http"
    /\ response.status_code = 500
    /\ response.content.data = None

\* C13: no exception of the judge, the rewrite or the loop escapes a tool
\* call: a tool whose verifier coroutine raised has returned an answer.
C13_ToolErrorsEnveloped ==
    entry \in ToolEntries
    => /\ response.kind # "raise"
       /\ pc[EntryRun] = "raised" => response.kind = "return"

\* C14: for a verify-and-fix request that is valid and whose agent calls all
\* succeed, the loop is run with the question and the attempt count of the
\* request, and the answer, once given, is status 200 with code 0 and the
\* returned question, field for field, as data.
C14_VerifyAndFixAnswersLoopResult ==
    LET payload == VerifyAndFixRequest(request)
        eq == ExamQuestion_init(payload.value.exam_question)
    IN  (/\ entry = "verify_and_fix_endpoint"
         /\ payload.kind = "return"
         /\ eq.kind = "return"
         /\ AllAnswersOk(EntryRun))
        => /\ pc[EntryRun] # "idle"
           /\ args[EntryRun] =
                  [exam_question |-> eq.value,
                   max_fix_attempts |-> payload.value.max_fix_attempts]
           /\ response.kind = "http"
              => /\ response.status_code = 200
                 /\ response.content.code = 0
                 /\ pc[EntryRun] = "returned"
                 /\ \A f \in ExamQuestionFields :
                        response.content.data[f]
                            = PyStr(result[EntryRun].value[f])

\* ------------------------------------------------- the prompt of a question
\* The question types verify_exam_question is called with: the ten known
\* tags, and other strings, with and without braces.
KnownTypes ==
    {"single_choice", single_choice_zh, "multi_choice", multi_choice_zh,
     "fill_blank", fill_blank_zh, "brief_answer", brief_answer_zh,
     "calculation", calculation_zh}
OtherTypes == {"unknown_tag", "", "Single_Choice", "{x}", "{answer}"}

PromptQuestions ==
    [question : QuestionTexts,
     answer : {"4"},
     question_type : KnownTypes \cup OtherTypes,
     knowledge_point : {""},
     knowledge_point_description : {"addition"},
     extra_requirement : {"", "show work"}]

PromptInit ==
    /\ pc = [r \in Runs |-> "idle"]
    /\ i = [r \in Runs |-> -1]
    /\ max_fix_attempts = [r \in Runs |-> 0]
    /\ exam_question = [r \in Runs |-> "None"]
    /\ exam_question_history = [r \in Runs |-> <<>>]
    /\ verification_result_history = [r \in Runs |-> <<>>]
    /\ result = [r \in Runs |-> NoResult]
    /\ calls = [r \in Runs |-> <<>>]
    /\ answers = [r \in Runs |-> <<>>]
    /\ args = [r \in Runs |-> "None"]
    /\ conf = "None"
    /\ verifier = "None"
    /\ entry = "None"
    /\ request \in PromptQuestions
    /\ response = NoResult
    /\ agent = "None"
    /\ services = "None"
    /\ tasks = "None"
    /\ environ = "None"

\* verify_exam_question builds the prompt of the question (lines 120-140).
BuildPrompt ==
    /\ entry = "None"
    /\ entry' = "verify_exam_question"
    /\ response' = verification_prompt(request)
    /\ UNCHANGED <<loopVars, conf, verifier, request, agentVars>>

\* verify_exam_question_tool builds the prompt of the question (lines 169-187).
BuildPromptTool ==
    /\ entry = "None"
    /\ entry' = "verify_exam_question_tool"
    /\ response' = verification_prompt_tool(request)
    /\ UNCHANGED <<loopVars, conf, verifier, request, agentVars>>

PromptNext == BuildPrompt \/ BuildPromptTool

PromptSpec == PromptInit /\ [][PromptNext]_vars

\* The template the claim assigns to each known tag.
TemplateOf(t) ==
    CASE t \in {"single_choice", single_choice_zh} ->
             PROMPTS.single_choice_verification
      [] t \in {"multi_choice", multi_choice_zh} ->
             PROMPTS.multi_choice_verification
      [] t \in {"fill_blank", fill_blank_zh} -> PROMPTS.fill_blank_verification
      [] t \in {"brief_answer", brief_answer_zh} ->
             PROMPTS.brief_answer_verification
      [] t \in {"calculation", calculation_zh} ->
             PROMPTS.calculation_verification

\* The text of template t up to its first slot.
Heading(t) == SubSeq(t, 1, MinOf(Braces(t)) - 1)

StartsWith(s, t) == Len(s) >= Len(t) /\ SubSeq(s, 1, Len(t)) = t

\* C15: the prompt of a question with a known tag is the filled template of
\* that tag, the same for a tag and its Chinese alias, the five templates
\* being distinct and none of them the generic one; the prompt of a question
\* with any other type string is the generic template with that literal
\* string in its type slot.
C15_TemplateOfType ==
    /\ Cardinality({Heading(PROMPTS[k]) : k \in DOMAIN PROMPTS}) = 6
    /\ entry = "verify_exam_question"
       => /\ response.kind = "return"
          /\ IF request.question_type \in KnownTypes
             THEN /\ StartsWith(response.value,
                                Heading(TemplateOf(request.question_type)))
                  /\ ~StartsWith(response.value,
                                 Heading(PROMPTS.verification_prompt))
             ELSE StartsWith(response.value,
                             Heading(PROMPTS.verification_prompt)
                                 \o request.question_type)

\* The configured provider selection is neither deepseek nor dashscope.
UnknownBinding ==
    /\ "LLM_BINDING" \in DOMAIN conf
    /\ bool(conf.LLM_BINDING)
    /\ conf.LLM_BINDING \notin {PyStr("deepseek"), PyStr("dashscope")}

\* C16: under an unknown provider selection the setup of the verifier has
\* failed, and no entry point has run: no judge call, no rewrite call, no
\* loop.
C16_UnknownBindingFailsSetup ==
    UnknownBinding
    => /\ verifier.kind = "raise"
       /\ entry = "None"
       /\ calls[EntryRun] = <<>>
       /\ pc[EntryRun] = "idle"

\* The exam question of the request body handled.
RequestQuestion ==
    IF entry = "verify_endpoint" THEN request ELSE request.exam_question

\* The body has a question shorter than 5 characters after stripping, an
\* answer that is empty after stripping, no question_type, or an attempt
\* count outside 1..5.
Malformed ==
    \/ Len(strip(RequestQuestion.question.str)) < 5
    \/ strip(RequestQuestion.answer.str) = ""
    \/ "question_type" \notin DOMAIN RequestQuestion
    \/ /\ entry = "verify_and_fix_endpoint"
       /\ "max_fix_attempts" \in DOMAIN request
       /\ request.max_fix_attempts.int \notin 1..5

\* C17: a malformed request body is rejected before the handler: the answer
\* is the framework's 422, no verifier coroutine is called, and no judge and
\* no rewrite call is made.
C17_MalformedRejected ==
    (entry \in HttpEntries /\ Malformed)
    => /\ response = Unprocessable
       /\ pc[EntryRun] = "idle"
       /\ calls[EntryRun] = <<>>
       /\ answers[EntryRun] = <<>>

\* A verify request whose question has 7 characters, 4 without its blanks,
\* was rejected.
C17_Witness ==
    /\ entry = "verify_endpoint"
    /\ request.question = PyStr("  2+2? ")
    /\ request.answer = PyStr("4")
    /\ "question_type" \in DOMAIN request
    /\ response = Unprocessable
    /\ calls[EntryRun] = <<>>

\* What the caller of the entry point supplied as the exam question: the
\* request body of an HTTP call, the keyword arguments of a tool call.
Supplied == IF entry \in HttpEntries THEN RequestQuestion ELSE request

\* C18: when the caller of a verify entry point supplies valid required
\* fields, no null, and leaves out optional field f, a question with f = ""
\* is built and judged, with a prompt whose slot f is filled with the empty
\* text; the call does not fail before its judge call.
C18_UnsetOptionalIsEmpty ==
    \A f \in OptionalFields :
        (/\ entry \in {"verify_endpoint", "verify_exam_question_tool"}
         /\ entry \in HttpEntries => ~Malformed
         /\ f \notin DOMAIN Supplied
         /\ \A g \in DOMAIN Supplied : Supplied[g] # None)
        => /\ Len(calls[EntryRun]) = 1
           /\ LET q == calls[EntryRun][1].exam_question
              IN  /\ q[f] = ""
                  /\ calls[EntryRun][1].prompt
                         = verification_prompt([q EXCEPT ![f] = ""]).value

\* ------------------------------------------------ claims on the records
\* C19: a run threads one current question: its first judge call is given the
\* caller's question; each rewrite call is given the question just judged and
\* the suggestion of that verdict; each later judge call is given the output
\* of the rewrite call before it; the history is the caller's question
\* followed by the rewrite outputs in order, so no question of it, and not the
\* caller's, is ever changed in place.
C19_LinearThreading ==
    \A r \in Runs :
        pc[r] # "idle"
        => /\ \A n \in 1..Len(calls[r]) :
                  IF n = 1
                  THEN calls[r][n].exam_question = args[r].exam_question
                  ELSE IF calls[r][n].op = "rewrite"
                  THEN /\ calls[r][n].exam_question
                              = calls[r][n - 1].exam_question
                       /\ calls[r][n].verification_result.suggestion
                              = answers[r][n - 1].metadata.suggestion
                  ELSE calls[r][n].exam_question
                           = ExamQuestion(answers[r][n - 1].metadata)
           /\ exam_question_history[r]
                  = <<args[r].exam_question>>
                        \o [k \in 1..Cardinality({n \in AnsweredOf(r, "rewrite") :
                                                    answers[r][n].ok}) |->
                               ExamQuestion(answers[r][2 * k].metadata)]
           /\ pc[r] = "returned"
              => result[r] = Return(Last(exam_question_history[r]))

\* The judge of a run was given the caller's question and answered with a
\* suggestion, and the run has ended with its history holding that question
\* alone.
C19_Witness ==
    \E r \in Runs :
        /\ Finished(r)
        /\ Len(calls[r]) = 1
        /\ calls[r][1].exam_question = args[r].exam_question
        /\ answers[r][1].ok
        /\ answers[r][1].metadata.suggestion = "too trivial"
        /\ exam_question_history[r] = <<args[r].exam_question>>

\* ------------------------------------------------ the record round trip
\* Keyword arguments of ExamQuestion(...): texts, the empty text among them,
\* and None for extra_requirement, which the constructor rejects.
RoundTripKwargs ==
    [question : {PyStr("What is 2+2?"), PyStr("")},
     answer : {PyStr("4"), PyStr("")},
     question_type : {PyStr("calculation"), PyStr("unknown_tag"), PyStr("")},
     knowledge_point : {PyStr("arithmetic"), PyStr("")},
     knowledge_point_description : {PyStr("addition"), PyStr("")},
     extra_requirement : {PyStr(" show work "), PyStr(""), None}]

RoundTripInit ==
    /\ pc = [r \in Runs |-> "idle"]
    /\ i = [r \in Runs |-> -1]
    /\ max_fix_attempts = [r \in Runs |-> 0]
    /\ exam_question = [r \in Runs |-> "None"]
    /\ exam_question_history = [r \in Runs |-> <<>>]
    /\ verification_result_history = [r \in Runs |-> <<>>]
    /\ result = [r \in Runs |-> NoResult]
    /\ calls = [r \in Runs |-> <<>>]
    /\ answers = [r \in Runs |-> <<>>]
    /\ args = [r \in Runs |-> "None"]
    /\ conf = "None"
    /\ verifier = "None"
    /\ entry = "None"
    /\ request \in RoundTripKwargs
    /\ response = NoResult
    /\ agent = "None"
    /\ services = "None"
    /\ tasks = "None"
    /\ environ = "None"

\* ExamQuestion(**ExamQuestion(**kwargs).model_dump()): the record is built,
\* dumped, and built again from the dump; a failing first construction is
\* the outcome.
RoundTrip ==
    /\ entry = "None"
    /\ entry' = "ExamQuestion"
    /\ response' = LET first == ExamQuestion_init(request)
                   IN  IF first.kind = "return"
                       THEN ExamQuestion_init(model_dump(first.value))
                       ELSE first
    /\ UNCHANGED <<loopVars, conf, verifier, request, agentVars>>

RoundTripNext == RoundTrip

RoundTripSpec == RoundTripInit /\ [][RoundTripNext]_vars

C21_DecisionFromIsCompliant ==
    \A r \in Runs :
        (/\ pc[r] # "idle"
         /\ AnsweredOf(r, "judge") # {}
         /\ AllAnswersOk(r))
        => LET n == MaxOf(AnsweredOf(r, "judge"))
           IN  /\ result[r] # Raise("AttributeError")
               /\ Compliant(r, n)
                  => result[r] = Return(calls[r][n].exam_question)
               /\ NonCompliant(r, n)
                  => /\ Len(calls[r]) > n
                     /\ calls[r][n + 1].op = "rewrite"

\* The entry points built on fix_exam_question, the question each of them
\* builds from its request, and whether the request marks the verification
\* result compliant.
FixEntries == {"fix_endpoint", "fix_exam_question_tool"}
GivenQuestion ==
    IF entry = "fix_endpoint"
    THEN LET payload == FixRequest(request)
         IN  IF payload.kind = "raise" THEN payload
             ELSE ExamQuestion_init(payload.value.exam_question)
    ELSE ExamQuestion_init(tool_kwargs(request))
MarkedCompliant ==
    IF entry = "fix_endpoint"
    THEN request.verification_result.is_compliant = PyBool(TRUE)
    ELSE request.Compliance = PyBool(TRUE)

C23_ToolSelectsSameTemplate ==
    entry = "verify_exam_question_tool"
    => /\ select_verification_prompt_tool(request.question_type)
              = select_verification_prompt(request.question_type)
       /\ response = verification_prompt(request)

\* ------------------------------------------------- the counts of the loop
\* The runs whose coroutine is main: those a caller started, and the one of
\* an entry point that runs the loop.
RunsOfMain ==
    {r \in Runs : pc[r] # "idle" /\ entry \in {"None"} \cup LoopEntries}

\* C24: in every state of a run of the loop, with J judge calls and R rewrite
\* calls started, R <= J <= R + 1 and J <= maxAttempts; the question history
\* holds one entry more than there are completed rewrite calls, and the
\* verification history one entry for each completed judge call.
C24_LoopCounts ==
    \A r \in RunsOfMain :
        LET J == JudgeCalls(r)
            R == RewriteCalls(r)
            completed(op) ==
                Cardinality({n \in AnsweredOf(r, op) : answers[r][n].ok})
        IN  /\ R <= J
            /\ J <= R + 1
            /\ J <= max_fix_attempts[r]
            /\ Len(exam_question_history[r]) = 1 + completed("rewrite")
            /\ Len(verification_result_history[r]) = completed("judge")

C26_ToolReturnsLoopResult ==
    LET eq == ExamQuestion_init(tool_kwargs(request))
        configured == get(conf, "MAX_FIX_ATTEMPTS", None)
        r == EntryRun
    IN  (/\ entry = "verify_and_fix_exam_question_tool"
         /\ eq.kind = "return"
         /\ pc[r] # "idle")
        => /\ args[r].exam_question = eq.value
           /\ configured \in {None, PyStr("")} => max_fix_attempts[r] = 3
           /\ configured.type = "int" /\ bool(configured)
              => max_fix_attempts[r] = configured.int
           /\ Awaiting(r) => response = NoResult
           /\ response.kind = "return"
              => /\ pc[r] = "returned"
                 /\ response.value = model_dump(result[r].value)
           /\ Finished(r) /\ AllAnswersOk(r)
              => /\ pc[r] = "returned"
                 /\ response = Return(model_dump(result[r].value))

\* ====================================================== the agent instance
\* eqv_agent.py and eqv_agent_runtime.py: an instance of
\* ExamQuestionVerificationAgent or of EQV_AgentRuntime, the service objects
\* its connect creates, and the calls of its methods, each a coroutine that
\* stops at every await.
\* The state a method works on is S = [agent, services, task, environ]: the
\* attributes of the instance, the objects created so far, the locals of the
\* calling task, and the environment.
NumChats == 2
Chats == 1..NumChats
RunAgentTask == NumChats + 1
DeployTask == NumChats + 2
Tasks == 1..DeployTask
OpOf(t) ==
    IF t \in Chats THEN "chat"
    ELSE IF t = RunAgentTask THEN "run_agent"
    ELSE "deploy"

AgentClasses == {"ExamQuestionVerificationAgent", "EQV_AgentRuntime"}

\* self.name = value
setattr(obj, name, value) == (name :> value) @@ obj

\* __init__ (eqv_agent.py lines 187-201, eqv_agent_runtime.py lines 54-62):
\* connected is the only attribute of those connect sets that exists.
Agent_init(cls) == [class |-> cls, agent |-> "eqv_plan_agent", connected |-> FALSE]

NoServices ==
    [sessions |-> <<>>, memory |-> <<>>, sandbox |-> <<>>,
     context_managers |-> <<>>, runners |-> <<>>, deployments |-> <<>>]

NewTask ==
    [pc |-> "idle", result |-> NoResult, awaited |-> 0, runner |-> 0,
     pending |-> "None", closes |-> 0]

\* The task leaves its outermost coroutine.
leave(S, outcome) ==
    [S EXCEPT !.task.pc = IF outcome.kind = "return" THEN "returned" ELSE "raised",
              !.task.result = outcome,
              !.task.awaited = 0]

\* close (eqv_agent.py lines 335-338, eqv_agent_runtime.py lines 200-203):
\* self.memory_service.stop() is awaited, and in EQV_AgentRuntime
\* self.sandbox_service.stop() after it; reading an attribute connect has not
\* set raises AttributeError.
close(S) ==
    LET S1 == [S EXCEPT !.task.closes = @ + 1]
    IN  IF ~HasAttr(S1.agent, "memory_service")
        THEN leave(S1, Raise("AttributeError"))
        ELSE [S1 EXCEPT !.task.pc = "memory_stop",
                        !.task.awaited = S1.agent.memory_service]

\* run_agent after its finally clause (agent_runtime.py lines 30-38): the
\* exception of `raise e` goes on, an interrupt was swallowed.
run_agent_end(S) ==
    IF S.task.pending = "None"
    THEN leave(S, Return("None"))
    ELSE leave(S, Raise(S.task.pending))

\* An exception e leaves connect, chat or deploy.  In run_agent the call is
\* inside try (agent_runtime.py lines 25-37): `except Exception` logs and
\* raises e again, `except KeyboardInterrupt` logs, and the finally clause
\* awaits agent.close() in both cases.
throw(S, t, e) ==
    IF OpOf(t) = "run_agent"
    THEN close([S EXCEPT !.task.pending =
                             IF e = "KeyboardInterrupt" THEN "None" ELSE e])
    ELSE leave(S, Raise(e))

\* deploy (eqv_agent.py lines 291-333, eqv_agent_runtime.py lines 156-198):
\* ValueError unless connected; else a LocalDeployManager is created and
\* self.runner.deploy(...) awaited, and then asyncio.Event().wait().
\* Faulty variant: the check of connected left out.
deploy_unchecked(S, t) ==
    [S EXCEPT !.services.deployments =
                  Append(@, [by |-> t, runner |-> get(S.agent, "runner", 0)]),
              !.task.pc = "runner_deploy"]
deploy(S, t) ==
    IF ~S.agent.connected
    THEN throw(S, t, "ValueError")
    ELSE [S EXCEPT !.services.deployments =
                       Append(@, [by |-> t, runner |-> S.agent.runner]),
                   !.task.pc = "runner_deploy"]

\* chat after its connect (eqv_agent.py lines 271-289): the request is built
\* and self.runner.stream_query(...) iterated; the task streams from the
\* runner the attribute held when the iteration began.
stream_query(S) ==
    [S EXCEPT !.task.pc = "stream_query", !.task.runner = S.agent.runner]

\* connect, its last lines (eqv_agent.py lines 237-260, eqv_agent_runtime.py
\* lines 101-125): the context manager is created on self.memory_service,
\* the runner on it, and connected is set; then the caller goes on.
connect_end(S, t) ==
    LET cm == Len(S.services.context_managers) + 1
        rn == Len(S.services.runners) + 1
        S1 == [S EXCEPT
                  !.services.context_managers =
                      Append(@, [by |-> t,
                                 memory_service |-> S.agent.memory_service]),
                  !.services.runners =
                      Append(@, [by |-> t, context_manager |-> cm]),
                  !.agent = setattr(setattr(setattr(@, "context_manager", cm),
                                            "runner", rn),
                                    "connected", TRUE),
                  !.task.awaited = 0]
    IN  IF OpOf(t) = "chat" THEN stream_query(S1) ELSE deploy(S1, t)

\* connect of EQV_AgentRuntime after the memory service started
\* (eqv_agent_runtime.py lines 80-99): the sandbox service of the configured
\* type is created and its start awaited; another type is a ValueError.
SandboxTypes == {"local", "docker", "remote"}
connect_sandbox(S, t) ==
    IF get(S.environ, "AGENT_RUNTIME_SANDBOX_TYPE", "local") \in SandboxTypes
    THEN LET sb == Len(S.services.sandbox) + 1
         IN  [S EXCEPT !.services.sandbox =
                           Append(@, [by |-> t, status |-> "created"]),
                       !.agent = setattr(@, "sandbox_service", sb),
                       !.task.pc = "sandbox_start",
                       !.task.awaited = sb]
    ELSE throw(S, t, "ValueError")

\* connect up to its first await (line 213 of eqv_agent.py, 73 of
\* eqv_agent_runtime.py): session_history_service.create_session(...).
connect(S) == [S EXCEPT !.task.pc = "create_session"]

\* chat up to its first await (eqv_agent.py lines 268-269): connect unless
\* connected.
chat(S) == IF ~S.agent.connected THEN connect(S) ELSE stream_query(S)

\* The call task t awaits returned: the coroutine goes on to its next await
\* or to its end.
resume_task(S, t) ==
    CASE S.task.pc = "create_session" ->
             \* lines 216-217: self.memory_service is created, start awaited
             LET ms == Len(S.services.memory) + 1
             IN  [S EXCEPT !.services.sessions = Append(@, [by |-> t]),
                           !.services.memory =
                               Append(@, [by |-> t, status |-> "created"]),
                           !.agent = setattr(@, "memory_service", ms),
                           !.task.pc = "memory_start",
                           !.task.awaited = ms]
      [] S.task.pc = "memory_start" ->
             LET S1 == [S EXCEPT !.services.memory[S.task.awaited].status =
                                     "started"]
             IN  IF S.agent.class = "EQV_AgentRuntime"
                 THEN connect_sandbox(S1, t)
                 ELSE connect_end(S1, t)
      [] S.task.pc = "sandbox_start" ->
             connect_end([S EXCEPT !.services.sandbox[S.task.awaited].status =
                                       "started"], t)
      [] S.task.pc = "stream_query" -> leave(S, Return("None"))
      [] S.task.pc = "runner_deploy" ->
             [S EXCEPT !.task.pc = "wait"]
      [] S.task.pc = "memory_stop" ->
             LET S1 == [S EXCEPT !.services.memory[S.task.awaited].status =
                                     "stopped"]
             IN  IF S.agent.class # "EQV_AgentRuntime"
                 THEN run_agent_end(S1)
                 ELSE IF ~HasAttr(S1.agent, "sandbox_service")
                 THEN leave(S1, Raise("AttributeError"))
                 ELSE [S1 EXCEPT !.task.pc = "sandbox_stop",
                                 !.task.awaited = S1.agent.sandbox_service]
      [] S.task.pc = "sandbox_stop" ->
             run_agent_end([S EXCEPT
                 !.services.sandbox[S.task.awaited].status = "stopped"])

\* The await of a task that is inside close, and of one that is not.
InClose == {"memory_stop", "sandbox_stop"}
InTry == {"create_session", "memory_start", "sandbox_start", "stream_query",
          "runner_deploy", "wait"}

\* The call task t awaits raised e: out of close the exception leaves
\* run_agent, elsewhere it is thrown to the caller.
fail_task(S, t, e) ==
    IF S.task.pc \in InClose THEN leave(S, Raise(e)) ELSE throw(S, t, e)

\* ------------------------------------------------------ the agent: actions
\* os.environ with AGENT_RUNTIME_SANDBOX_TYPE unset, set to a supported type,
\* and set to an unsupported one.
Environs ==
    {[k \in {} |-> ""],
     [AGENT_RUNTIME_SANDBOX_TYPE |-> "docker"],
     [AGENT_RUNTIME_SANDBOX_TYPE |-> "k8s"]}

\* The calls made on one instance: chat calls of clients and a deploy call,
\* or run_agent and a deploy call.
Clients == {Chats \cup {DeployTask}, {RunAgentTask, DeployTask}}

\* What an awaited service call raises when it fails.
ServiceErrors == {"ConnectionError"}

AgentInit ==
    /\ pc = [r \in Runs |-> "idle"]
    /\ i = [r \in Runs |-> -1]
    /\ max_fix_attempts = [r \in Runs |-> 0]
    /\ exam_question = [r \in Runs |-> "None"]
    /\ exam_question_history = [r \in Runs |-> <<>>]
    /\ verification_result_history = [r \in Runs |-> <<>>]
    /\ result = [r \in Runs |-> NoResult]
    /\ calls = [r \in Runs |-> <<>>]
    /\ answers = [r \in Runs |-> <<>>]
    /\ args = [r \in Runs |-> "None"]
    /\ conf = "None"
    /\ verifier = "None"
    /\ entry = "None"
    /\ request = "None"
    /\ response = NoResult
    /\ agent \in {Agent_init(cls) : cls \in AgentClasses}
    /\ services = NoServices
    /\ tasks \in {[t \in T |-> NewTask] : T \in Clients}
    /\ environ \in Environs

\* The state task t works on, and the state it leaves.
StateOf(t) ==
    [agent |-> agent, services |-> services, task |-> tasks[t],
     environ |-> environ]
Put(t, S) ==
    /\ agent' = S.agent
    /\ services' = S.services
    /\ tasks' = [tasks EXCEPT ![t] = S.task]
    /\ UNCHANGED <<environ, loopVars, entryVars>>

\* A client calls agent.chat(...) and iterates it.
ChatCall(t) ==
    /\ t \in DOMAIN tasks
    /\ tasks[t].pc = "idle"
    /\ OpOf(t) = "chat"
    /\ Put(t, chat(StateOf(t)))

\* asyncio.run(run_agent(agent)): the try block begins with agent.connect.
RunAgentCall(t) ==
    /\ t \in DOMAIN tasks
    /\ tasks[t].pc = "idle"
    /\ OpOf(t) = "run_agent"
    /\ Put(t, connect(StateOf(t)))

\* A client awaits agent.deploy().
DeployCall(t) ==
    /\ t \in DOMAIN tasks
    /\ tasks[t].pc = "idle"
    /\ OpOf(t) = "deploy"
    /\ Put(t, deploy(StateOf(t), t))

\* The call task t awaits returns; asyncio.Event().wait() never does.
AwaitReturns(t) ==
    /\ t \in DOMAIN tasks
    /\ tasks[t].pc \in (InTry \cup InClose) \ {"wait"}
    /\ Put(t, resume_task(StateOf(t), t))

\* The call task t awaits raises e.
AwaitRaises(t, e) ==
    /\ t \in DOMAIN tasks
    /\ tasks[t].pc \in (InTry \cup InClose) \ {"wait"}
    /\ Put(t, fail_task(StateOf(t), t, e))

\* The user interrupts run_agent inside its try block.
Interrupt(t) ==
    /\ t \in DOMAIN tasks
    /\ OpOf(t) = "run_agent"
    /\ tasks[t].pc \in InTry
    /\ Put(t, throw(StateOf(t), t, "KeyboardInterrupt"))

AgentNext ==
    \E t \in Tasks :
        \/ ChatCall(t)
        \/ RunAgentCall(t)
        \/ DeployCall(t)
        \/ AwaitReturns(t)
        \/ \E e \in ServiceErrors : AwaitRaises(t, e)
        \/ Interrupt(t)

AgentSpec == AgentInit /\ [][AgentNext]_vars

\* ------------------------------------------------- claims on the agent
\* C27: a call of deploy on an agent that is not connected raises ValueError,
\* starts no deployment and changes neither an attribute of the agent nor a
\* service; every deployment there is was started on the runner of a connect
\* that had completed, connected being set.
C27_DeployNeedsConnect ==
    /\ [](\A k \in 1..Len(services.deployments) :
              /\ agent.connected
              /\ services.deployments[k].runner \in 1..Len(services.runners))
    /\ [][\A t \in Tasks :
              (/\ t \in DOMAIN tasks
               /\ OpOf(t) = "deploy"
               /\ tasks[t].pc = "idle"
               /\ tasks'[t].pc # "idle"
               /\ ~agent.connected)
              => /\ tasks'[t].result = Raise("ValueError")
                 /\ agent' = agent
                 /\ services' = services]_vars

\* deploy was called on an agent that is not connected and raised ValueError,
\* and there is no deployment.
C27_Witness ==
    \E t \in DOMAIN tasks :
        /\ OpOf(t) = "deploy"
        /\ tasks[t].result = Raise("ValueError")
        /\ ~agent.connected
        /\ services.deployments = <<>>

\* The chat calls that created an object of the sequence seq.
ChatCreators(seq) == {seq[k].by : k \in 1..Len(seq)} \cap Chats

\* C28: over every interleaving of chat calls on one agent the lazy connect
\* is completed by at most one of them: no two chat calls both create a
\* session, a memory service and a runner, and while a chat call streams from
\* a runner the agent's runner is that one.
C28_ChatConnectsOnce ==
    /\ Cardinality(ChatCreators(services.sessions)
                       \cap ChatCreators(services.memory)
                       \cap ChatCreators(services.runners)) <= 1
    /\ \A t \in DOMAIN tasks :
           tasks[t].pc = "stream_query" => tasks[t].runner = agent.runner

\* C29: on every path through run_agent close is invoked exactly once, when
\* the try block is left, and it fails on no attribute connect has not set:
\* run_agent never ends with the AttributeError of a service that was not
\* created.
C29_CloseOnceWithoutError ==
    \A t \in DOMAIN tasks :
        OpOf(t) = "run_agent"
        => /\ tasks[t].closes = IF tasks[t].pc \in InTry \cup {"idle"}
                                THEN 0 ELSE 1
           /\ tasks[t].result # Raise("AttributeError")

\* The memory service the agent holds has been started, and the agent holds
\* a context manager and a runner.
ServicesReady ==
    /\ HasAttr(agent, "memory_service")
    /\ services.memory[agent.memory_service].status \in {"started", "stopped"}
    /\ HasAttr(agent, "context_manager")
    /\ HasAttr(agent, "runner")

\* C30: connected is false at first; in every state connected implies that
\* the agent's memory service has been started and that its context manager
\* and runner exist; connected becomes true only in the step that ends a
\* connect, which creates the runner, and never becomes false again.
C30_ConnectedMeansReady ==
    /\ ~agent.connected
    /\ [](agent.connected => ServicesReady)
    /\ [][/\ agent.connected => agent'.connected
          /\ ~agent.connected /\ agent'.connected
             => /\ Len(services'.runners) = Len(services.runners) + 1
                /\ \E t \in DOMAIN tasks :
                       /\ tasks[t].pc \in {"memory_start", "sandbox_start"}
                       /\ tasks'[t].pc \notin {"memory_start", "sandbox_start"}
                       /\ tasks'[t].result.kind # "raise"]_vars
====
